---- MODULE Spec2Model ----
(***************************************************************************)
(* Breezart TCP client, poll coordinator, power switch and climate entity  *)
(* (custom_components/breezart).  One asyncio event loop runs a poll tick   *)
(* (_async_update_data) and one entity command at a time beside it; each    *)
(* action is the code between two awaits.  The device is the environment:  *)
(* it answers the requests written to the socket in order, late, wrongly   *)
(* or never.                                                               *)
(***************************************************************************)
EXTENDS Integers, Sequences, FiniteSets, TLC

\* ------------------------------------------------------------------ bounds
MaxPending == 1      \* requests written and not yet answered by the device
MaxRx == 1           \* responses buffered in the StreamReader
MaxNow == 12         \* last instant of the monotonic clock
OverRange == 2       \* how far beyond 0..MaxWord the values given to _dec_to_hex go
MaxLine == 5         \* characters of a response line given to _split_response
TimeStep == 6        \* seconds the clock advances in one step

\* ------------------------------------------------------- program constants
_OPTIMISTIC_HOLD_SECONDS == 6
MaxWord == 65535      \* the largest value _dec_to_hex encodes
WordBits == 16        \* the width _parse_bits pads a word to
POWER_ON == 1
POWER_OFF == 0

REQ_GET_PROPERTIES == "VPr07"
REQ_GET_STATE == "VSt07"
REQ_GET_SENSORS == "VSens"
REQ_SET_POWER == "VWPwr"
REQ_SET_TEMP == "VWTmp"
REQ_SET_FAN_SPEED == "VWSpd"
REQ_SET_MODE == "VWFtr"

DELIMITER == "_"

RESP_STATE == "VSt07"
RESP_SENSORS == "VSens"
RESP_PROPERTIES == "VPr07"
RESP_OK == "OK"

ERROR_PREFIX ==
    [tag \in {"VEPas", "VEFrm", "VECd1", "VECd2", "VEDat"} |->
        CASE tag = "VEPas" -> "Wrong password"
          [] tag = "VEFrm" -> "Wrong format of request"
          [] tag = "VECd1" -> "Request of type 1 not found"
          [] tag = "VECd2" -> "Request of type 2 not found"
          [] tag = "VEDat" -> "Error in request data"]

\* Python's None for an optional value, and a present value.
None == <<>>
Some(x) == <<x>>
ValueOf(opt) == opt[1]

\* HVACMode members the climate entity offers (_attr_hvac_modes)
HVAC_OFF == "off"
HVAC_FAN_ONLY == "fan_only"
HVAC_HEAT == "heat"
HVAC_COOL == "cool"
HVAC_AUTO == "auto"

\* ------------------------------------------------------------ input sets
\* What a state response decodes to (the fields the entities present).
StateInputs == {"st_a", "st_b"}
SensorInputs == {"sens_a"}
PropertyInputs == {"props_a"}
\* A response tag that is neither expected nor an error tag.
JunkTag == "VXxxx"
\* The error tags the device answers with.
DeviceErrorTags == {"VEPas"}
\* What the entity services are called with.
TemperatureInputs == {22}
FanModeInputs == {"8"}
HvacInputs == {HVAC_OFF, HVAC_HEAT}

\* ------------------------------------------------- exceptions of the code
\* The exception class each failure is raised as.
ExcOf(cause) ==
    CASE cause = "connect_refused" -> "OSError"
      [] cause = "connect_timeout" -> "TimeoutError"
      [] cause = "not_connected"   -> "ConnectionError"
      [] cause = "no_response"     -> "TimeoutError"
      [] cause = "empty_response"  -> "TimeoutError"
      [] cause = "read_error"      -> "ConnectionError"
      [] cause = "device_error"    -> "PermissionError"
      [] cause = "bad_tag"         -> "ValueError"
      [] cause = "short"           -> "IndexError"

\* Python's class hierarchy: the builtin classes each class derives from.
Bases(exc) ==
    CASE exc = "OSError"         -> {"OSError", "Exception"}
      [] exc = "TimeoutError"    -> {"TimeoutError", "OSError", "Exception"}
      [] exc = "ConnectionError" -> {"ConnectionError", "OSError", "Exception"}
      [] exc = "PermissionError" -> {"PermissionError", "OSError", "Exception"}
      [] exc = "ValueError"      -> {"ValueError", "Exception"}
      [] exc = "IndexError"      -> {"IndexError", "LookupError", "Exception"}

TransportCauses ==
    {"connect_refused", "connect_timeout", "not_connected", "no_response",
     "empty_response", "read_error"}
ProtocolCauses == {"device_error", "bad_tag"}

IsConnectionFault_NoTimeout(exc) ==
    Bases(exc) \cap {"ConnectionError"} # {}

\* except (ConnectionError, OSError, TimeoutError) of _async_update_data
IsConnectionFault(exc) ==
    Bases(exc) \cap {"ConnectionError", "OSError", "TimeoutError"} # {}

\* ------------------------------------------------------------------ state
VARIABLES
    writer,                  \* client._writer: "none", "open", or "closing" (closed, still referenced)
    reader,                  \* client._reader, likewise
    properties_loaded,       \* coordinator._properties_loaded
    client_props,            \* the client's cached device properties
    data,                    \* coordinator.data, the published Snapshot
    tick,                    \* the running _async_update_data: where it awaits, its local `state`
    cmd,                     \* the running entity command: where it awaits, the calls left
    pending,                 \* requests the device has received and not answered
    rx,                      \* responses in the StreamReader's buffer
    timed_out,               \* history: a request on the open connection timed out
    props_on_conn,           \* history: get_properties returned on the open connection
    last_issued,             \* history: the field of the last climate command issued
    optimistic_target_temp,  \* climate._optimistic_target_temp
    optimistic_fan_mode,     \* climate._optimistic_fan_mode
    optimistic_hvac_mode,    \* climate._optimistic_hvac_mode
    optimistic_set_time,     \* climate._optimistic_set_time
    now,                     \* time.monotonic()
    codec                    \* a call of one of the module's pure functions: its input and result

sessionVars == <<writer, reader, pending, rx, timed_out, props_on_conn>>
coordVars == <<properties_loaded, client_props, data, tick>>
overlayVars ==
    <<optimistic_target_temp, optimistic_fan_mode, optimistic_hvac_mode,
      optimistic_set_time, last_issued>>
programVars == <<sessionVars, coordVars, cmd, overlayVars, now>>
vars == <<programVars, codec>>

\* No tick is running; state is _async_update_data's local `state`.
IdleTick ==
    [pc |-> "idle", state |-> None, cause |-> "none", detail |-> None,
     ready_before |-> FALSE, close |-> "none"]
\* No command is running; arg is the handler's argument, reqs its client calls.
IdleCmd ==
    [pc |-> "idle", entity |-> "none", field |-> "none", arg |-> None,
     reqs |-> <<>>, cause |-> "none", detail |-> None]

\* No pure function is being followed.
NoCall == [op |-> "none", in |-> None, via |-> None, out |-> None]

\* The integration after construction.
InitProgram ==
    /\ writer = "none"
    /\ reader = "none"
    /\ properties_loaded = FALSE
    /\ client_props = "default"
    /\ data = None
    /\ tick = IdleTick
    /\ cmd = IdleCmd
    /\ pending = <<>>
    /\ rx = <<>>
    /\ timed_out = FALSE
    /\ props_on_conn = FALSE
    /\ last_issued = "none"
    /\ optimistic_target_temp = None
    /\ optimistic_fan_mode = None
    /\ optimistic_hvac_mode = None
    /\ optimistic_set_time = 0
    /\ now = 0

Init == InitProgram /\ codec = NoCall

\* ----------------------------------------------------------------- device
\* The tag the device answers a request type with.
RespTag(type) ==
    CASE type = REQ_GET_PROPERTIES -> RESP_PROPERTIES
      [] type = REQ_GET_STATE -> RESP_STATE
      [] type = REQ_GET_SENSORS -> RESP_SENSORS
      [] OTHER -> RESP_OK

\* The data tokens of a well-tagged response; "short" is the tag alone.
PayloadsOf(type) ==
    CASE type = REQ_GET_PROPERTIES -> PropertyInputs \cup {"short"}
      [] type = REQ_GET_STATE -> StateInputs \cup {"short"}
      [] type = REQ_GET_SENSORS -> SensorInputs
      [] OTHER -> {"-"}

\* Every line the device may answer a request with; tag "" is a blank line.
\* Each ends in a newline.
RepliesWith(type, tags) ==
    {[tag |-> RespTag(type), val |-> v, end |-> "newline"] : v \in PayloadsOf(type)}
    \cup {[tag |-> e, val |-> "-", end |-> "newline"] : e \in tags}
    \cup {[tag |-> JunkTag, val |-> "-", end |-> "newline"],
          [tag |-> "", val |-> "-", end |-> "newline"]}

\* The complete response to a request, as the device may frame it: ended by a
\* newline or not ended at all ("none").  Responses are far shorter than the
\* StreamReader's 64 KiB limit.
FramedReplies(type) ==
    {[tag |-> RespTag(type), val |-> v, end |-> e] :
        v \in PayloadsOf(type) \ {"short"}, e \in {"newline", "none"}}

Replies(type) == RepliesWith(type, DeviceErrorTags)

\* ----------------------------------------------------------------- client
\* The characters of format(value, "x"), by digit value.
HexDigits ==
    <<"0", "1", "2", "3", "4", "5", "6", "7", "8", "9", "a", "b", "c", "d", "e", "f">>

\* _dec_to_hex for 0 <= value <= 65535: lowercase hex text, no padding, as the
\* sequence of its characters.
RECURSIVE DecToHex(_)
DecToHex(value) ==
    IF value < 16 THEN <<HexDigits[value + 1]>>
    ELSE DecToHex(value \div 16) \o <<HexDigits[(value % 16) + 1]>>

\* The digits int(text, 16) reads besides the lowercase ones.
HexDigitsUpper ==
    <<"0", "1", "2", "3", "4", "5", "6", "7", "8", "9", "A", "B", "C", "D", "E", "F">>

\* _hex_to_dec: int(hex_str, 16)
RECURSIVE HexToDec(_)
HexToDec(hex_str) ==
    IF hex_str = <<>> THEN 0
    ELSE LET last == hex_str[Len(hex_str)]
             digit == CHOOSE d \in 0..15 : last \in {HexDigits[d + 1], HexDigitsUpper[d + 1]}
         IN  16 * HexToDec(SubSeq(hex_str, 1, Len(hex_str) - 1)) + digit

\* _build_request: request type and optional data word in hex (the password is
\* fixed).
BuildRequest(type, word) ==
    [type |-> type, data |-> IF word = None THEN None ELSE Some(DecToHex(ValueOf(word)))]

\* What _send makes of a response line: the exception it raises, or "ok".
SendCheck(r) ==
    IF r.tag = "" THEN "empty_response"
    ELSE IF r.tag \in DOMAIN ERROR_PREFIX THEN "device_error"
    ELSE "ok"

\* _check_error's exception: the tag's reason and the tokens of the response.
CheckErrorMessage(r) == [reason |-> ERROR_PREFIX[r.tag], parts |-> r]

FetchCheck_TagFirst(type, r) ==
    IF r.tag = "" THEN "empty_response"
    ELSE IF r.tag # RespTag(type) THEN "bad_tag"
    ELSE "ok"

\* get_properties / get_state / get_sensors / set_*: what the call makes of a line.
FetchCheck(type, r) ==
    IF SendCheck(r) # "ok" THEN SendCheck(r)
    ELSE IF r.tag # RespTag(type) THEN "bad_tag"
    ELSE IF r.val = "short" /\ type \in {REQ_GET_PROPERTIES, REQ_GET_STATE} THEN "short"
    ELSE "ok"

CommandCheck_AnyTag(r) == SendCheck(r)

\* set_power / set_temperature / set_fan_speed / set_mode: what the call makes of
\* a line.
CommandCheck(r) ==
    IF SendCheck(r) # "ok" THEN SendCheck(r)
    ELSE IF r.tag # RESP_OK THEN "bad_tag"
    ELSE "ok"

\* The fields of a state response the entities present.
DecodeState(val) ==
    CASE val = "st_a" ->
           [power |-> FALSE, mode |-> 4, temperature_target |-> 20, speed_target |-> 2]
      [] val = "st_b" ->
           [power |-> TRUE, mode |-> 0, temperature_target |-> 23, speed_target |-> 5]

\* The bounds the client holds: __init__'s defaults until get_properties has
\* decoded a response.
DecodeProperties(val) ==
    CASE val = "default" ->
           [temp_min |-> 15, temp_max |-> 30, speed_min |-> 1, speed_max |-> 10]
      [] val = "props_a" ->
           [temp_min |-> 16, temp_max |-> 28, speed_min |-> 1, speed_max |-> 7]

\* get_sensors: every channel the response lacks is None.
DecodeSensors(val) == IF val = "short" THEN "absent" ELSE val

\* --------------------------------------------------------- pure functions
\* Text is the sequence of its characters; a response is the sequence of its
\* tokens, the tag first.
\* str(n) of a natural number, as an f-string formats it.
RECURSIVE DecimalText(_)
DecimalText(n) ==
    IF n < 10 THEN <<HexDigits[n + 1]>>
    ELSE DecimalText(n \div 10) \o <<HexDigits[(n % 10) + 1]>>

_dec_to_hex_Decimal(value) ==
    IF value < 0 \/ value > MaxWord THEN [exc |-> "ValueError", text |-> <<>>]
    ELSE [exc |-> "none", text |-> DecimalText(value)]

_dec_to_hex_NoUpperBound(value) ==
    IF value < 0 THEN [exc |-> "ValueError", text |-> <<>>]
    ELSE [exc |-> "none", text |-> DecToHex(value)]

\* _dec_to_hex of an integer: ValueError outside 0..65535, else format(value, "x").
_dec_to_hex(value) ==
    IF value < 0 \/ value > MaxWord THEN [exc |-> "ValueError", text |-> <<>>]
    ELSE [exc |-> "none", text |-> DecToHex(value)]

HexToDecSign_Unsigned(hex_str) == HexToDec(hex_str)

\* _hex_to_dec_sign: val & 0x8000 tests bit 15; then val -= 0x10000.
HexToDecSign(hex_str) ==
    LET val == HexToDec(hex_str)
    IN  IF (val \div 32768) % 2 = 1 THEN val - 65536 ELSE val

\* format(num, "b"): the binary digits of num, the most significant first.
RECURSIVE ToBinary(_)
ToBinary(num) == IF num < 2 THEN <<num>> ELSE ToBinary(num \div 2) \o <<num % 2>>

\* format(num, "016b"): zero-padded on the left to WordBits digits.
Padded(digits) == [i \in 1..(WordBits - Len(digits)) |-> 0] \o digits

\* text[::-1]
Reverse(text) == [i \in 1..Len(text) |-> text[Len(text) + 1 - i]]

\* text[a:b]
Slice(text, a, b) == SubSeq(text, a + 1, IF b < Len(text) THEN b ELSE Len(text))

\* int(text, 2)
RECURSIVE FromBinary(_)
FromBinary(text) ==
    IF text = <<>> THEN 0
    ELSE 2 * FromBinary(SubSeq(text, 1, Len(text) - 1)) + text[Len(text)]

ParseBits_MsbFirst(hex_str, from_bit, to_bit) ==
    IF hex_str = <<"0">> THEN 0
    ELSE FromBinary(Slice(Padded(ToBinary(HexToDec(hex_str))), from_bit, to_bit + 1))

\* _parse_bits, for 0 <= from_bit <= to_bit < WordBits as every call has them.
ParseBits(hex_str, from_bit, to_bit) ==
    IF hex_str = <<"0">> THEN 0
    ELSE LET bits == Reverse(Padded(ToBinary(HexToDec(hex_str))))
             extracted == Reverse(Slice(bits, from_bit, to_bit + 1))
         IN  FromBinary(extracted)

\* message.split(sep): the segments between the separators, empty ones included.
RECURSIVE Split(_, _)
Split(text, sep) ==
    IF \A i \in 1..Len(text) : text[i] # sep THEN <<text>>
    ELSE LET i == CHOOSE j \in 1..Len(text) :
                      text[j] = sep /\ \A k \in 1..(j - 1) : text[k] # sep
         IN  <<SubSeq(text, 1, i - 1)>> \o Split(SubSeq(text, i + 1, Len(text)), sep)

\* `if v` of a segment
Truthy(v) == v # <<>>

SplitResponse_KeepEmpty(message) == Split(message, DELIMITER)

\* _split_response: [v for v in message.split(DELIMITER) if v]
SplitResponse(message) == SelectSeq(Split(message, DELIMITER), Truthy)

\* DELIMITER.join(parts)
RECURSIVE Join(_)
Join(parts) ==
    IF parts = <<>> THEN <<>>
    ELSE IF Len(parts) = 1 THEN parts[1]
    ELSE parts[1] \o <<DELIMITER>> \o Join(Tail(parts))

BuildRequestText_ZeroDropped(password, request_type, word) ==
    LET pw == _dec_to_hex(password)
        hex == IF word = None THEN pw ELSE _dec_to_hex(ValueOf(word))
    IN  IF pw.exc # "none" \/ hex.exc # "none" THEN [exc |-> "ValueError", text |-> <<>>]
        ELSE [exc |-> "none",
              text |-> Join(<<request_type, pw.text>>
                            \o (IF word = None \/ word = Some(0) THEN <<>>
                                ELSE <<hex.text>>))]

\* _build_request: the text of a request; request_type is one symbol of the text.
\* _dec_to_hex raises for a password or data word outside 0..65535.
BuildRequestText(password, request_type, word) ==
    LET pw == _dec_to_hex(password)
        hex == IF word = None THEN pw ELSE _dec_to_hex(ValueOf(word))
    IN  IF pw.exc # "none" \/ hex.exc # "none" THEN [exc |-> "ValueError", text |-> <<>>]
        ELSE [exc |-> "none",
              text |-> Join(<<request_type, pw.text>>
                            \o (IF word = None THEN <<>> ELSE <<hex.text>>))]

\* parts[i]
Part(parts, i) == parts[i + 1]

Signed8_Unsigned(raw) == raw

\* tempr_raw if tempr_raw < 128 else tempr_raw - 256
Signed8(raw) == IF raw < 128 THEN raw ELSE raw - 256

\* None if value == 255 else value
Unless255(value) == IF value = 255 THEN None ELSE Some(value)

\* get_state on the tokens _send returned: the dict it returns, or the exception.
GetState(parts) ==
    IF parts = <<>> \/ Part(parts, 0) # RESP_STATE THEN [exc |-> "ValueError"]
    ELSE IF Len(parts) < 7 THEN [exc |-> "IndexError"]
    ELSE [exc |-> "none",
          power |-> ParseBits(Part(parts, 1), 0, 0) # 0,
          is_warn_err |-> ParseBits(Part(parts, 1), 1, 1) # 0,
          is_fatal_err |-> ParseBits(Part(parts, 1), 2, 2) # 0,
          danger_overheat |-> ParseBits(Part(parts, 1), 3, 3) # 0,
          change_filter |-> ParseBits(Part(parts, 1), 5, 5) # 0,
          mode_set |-> ParseBits(Part(parts, 1), 6, 8),
          unit_state |-> ParseBits(Part(parts, 2), 0, 1),
          mode |-> ParseBits(Part(parts, 2), 3, 5),
          temperature |-> Signed8(ParseBits(Part(parts, 3), 0, 7)),
          temperature_target |-> ParseBits(Part(parts, 3), 8, 15),
          humidity |-> Unless255(ParseBits(Part(parts, 4), 0, 7)),
          speed |-> ParseBits(Part(parts, 5), 0, 3),
          speed_target |-> ParseBits(Part(parts, 5), 4, 7),
          speed_fact |-> Unless255(ParseBits(Part(parts, 5), 8, 15)),
          color_msg |-> ParseBits(Part(parts, 6), 4, 5),
          color_ind |-> ParseBits(Part(parts, 6), 6, 7),
          filter_dust |-> Unless255(ParseBits(Part(parts, 6), 8, 15)),
          msg |-> IF Len(parts) > 10 THEN Some(Part(parts, 10)) ELSE None]

\* The literal "fb07" the sensor parsers compare a token with.
SentinelToken == <<"f", "b", "0", "7">>

\* _parse_temp_sensor: _hex_to_dec_sign(val) / 10.0, as a fraction
ParseTempSensor(val) ==
    IF val = SentinelToken THEN None ELSE Some([num |-> HexToDecSign(val), den |-> 10])

ParseSensor_NoSentinel(val) == Some([num |-> HexToDec(val), den |-> 1])

\* _parse_sensor: float(_hex_to_dec(val)), as a fraction
ParseSensor(val) ==
    IF val = SentinelToken THEN None ELSE Some([num |-> HexToDec(val), den |-> 1])

\* get_sensors on the tokens _send returned.
GetSensors(parts) ==
    IF parts = <<>> \/ Part(parts, 0) # RESP_SENSORS THEN [exc |-> "ValueError"]
    ELSE [exc |-> "none",
          temp_supply |-> IF Len(parts) > 1 THEN ParseTempSensor(Part(parts, 1)) ELSE None,
          temp_room |-> IF Len(parts) > 3 THEN ParseSensor(Part(parts, 3)) ELSE None,
          temp_outdoor |-> IF Len(parts) > 5 THEN ParseTempSensor(Part(parts, 5)) ELSE None,
          temp_water |-> IF Len(parts) > 7 THEN ParseSensor(Part(parts, 7)) ELSE None,
          power_consumption |-> IF Len(parts) > 8 THEN ParseSensor(Part(parts, 8)) ELSE None]

ProtocolVersion_SubFirst(major, sub) == DecimalText(sub) \o <<".">> \o DecimalText(major)

\* f"{major}.{sub}"
ProtocolVersion(major, sub) == DecimalText(major) \o <<".">> \o DecimalText(sub)

\* get_properties on the tokens _send returned: the attributes it has set once it
\* returns, or the exception.
GetProperties(parts) ==
    IF parts = <<>> \/ Part(parts, 0) # RESP_PROPERTIES THEN [exc |-> "ValueError"]
    ELSE IF Len(parts) < 8 THEN [exc |-> "IndexError"]
    ELSE [exc |-> "none",
          temp_min |-> ParseBits(Part(parts, 1), 0, 7),
          temp_max |-> ParseBits(Part(parts, 1), 8, 15),
          speed_min |-> ParseBits(Part(parts, 2), 0, 7),
          speed_max |-> ParseBits(Part(parts, 2), 8, 15),
          has_cooler |-> ParseBits(Part(parts, 4), 14, 14) # 0,
          has_humidifier |-> ParseBits(Part(parts, 4), 13, 13) # 0,
          protocol_ver |-> ProtocolVersion(ParseBits(Part(parts, 5), 8, 15),
                                           ParseBits(Part(parts, 5), 0, 7)),
          firmware_ver |-> HexToDec(Part(parts, 7))]


\* ------------------------------------------------------- cooperative steps
\* A coroutine between two awaits runs alone: while one is at such a place
\* nothing else takes a step.
TickAtomic ==
    tick.pc \in {"start", "send_props", "send_state", "send_sensors",
                 "recv_props", "recv_state", "recv_sensors", "failed"}
CmdAtomic == cmd.pc \in {"issued", "send", "recv", "failed"}

\* The coroutine is suspended in wait_for(readuntil).
TickWaiting == tick.pc \in {"wait_props", "wait_state", "wait_sensors"}
CmdWaiting == cmd.pc = "wait"

TypeOfPc(pc) ==
    CASE pc \in {"send_props", "wait_props", "recv_props"} -> REQ_GET_PROPERTIES
      [] pc \in {"send_state", "wait_state", "recv_state"} -> REQ_GET_STATE
      [] pc \in {"send_sensors", "wait_sensors", "recv_sensors"} -> REQ_GET_SENSORS

WaitPc_SendAgain(type) ==
    CASE type = REQ_GET_PROPERTIES -> "send_props"
      [] type = REQ_GET_STATE -> "send_state"
      [] type = REQ_GET_SENSORS -> "send_sensors"

WaitPc(type) ==
    CASE type = REQ_GET_PROPERTIES -> "wait_props"
      [] type = REQ_GET_STATE -> "wait_state"
      [] type = REQ_GET_SENSORS -> "wait_sensors"

RecvPc(type) ==
    CASE type = REQ_GET_PROPERTIES -> "recv_props"
      [] type = REQ_GET_STATE -> "recv_state"
      [] type = REQ_GET_SENSORS -> "recv_sensors"

\* readuntil(b"\n") has something to return: a whole line is buffered.
LineBuffered == rx # <<>> /\ Head(rx).end = "newline"

\* The buffer after that read.
Rest(buf) == Tail(buf)

\* Bytes written to the socket reach the device; beyond MaxPending unanswered
\* requests the device never answers the new one.
Written(pend, req) == IF Len(pend) < MaxPending THEN Append(pend, req) ELSE pend

\* ------------------------------------------------------------- the overlay
HoldExpired_AtLeast(t, set_time) == t - set_time >= _OPTIMISTIC_HOLD_SECONDS

\* _handle_coordinator_update's test.
HoldExpired(t, set_time) == t - set_time > _OPTIMISTIC_HOLD_SECONDS

\* _handle_coordinator_update: every listener runs when a Snapshot is published.
HandleCoordinatorUpdate ==
    /\ IF HoldExpired(now, optimistic_set_time)
       THEN /\ optimistic_target_temp' = None
            /\ optimistic_fan_mode' = None
            /\ optimistic_hvac_mode' = None
       ELSE UNCHANGED <<optimistic_target_temp, optimistic_fan_mode, optimistic_hvac_mode>>
    /\ UNCHANGED <<optimistic_set_time, last_issued>>

\* str(speed)
Str(n) ==
    CASE n = 0 -> "0" [] n = 1 -> "1" [] n = 2 -> "2" [] n = 3 -> "3" [] n = 4 -> "4"
      [] n = 5 -> "5" [] n = 6 -> "6" [] n = 7 -> "7" [] n = 8 -> "8" [] n = 9 -> "9"
      [] n = 10 -> "10" [] n = 11 -> "11" [] n = 12 -> "12" [] n = 13 -> "13"
      [] n = 14 -> "14" [] n = 15 -> "15"

\* int(fan_mode)
ParseInt(str) ==
    CASE str = "1" -> 1 [] str = "2" -> 2 [] str = "3" -> 3 [] str = "4" -> 4
      [] str = "5" -> 5 [] str = "6" -> 6 [] str = "7" -> 7 [] str = "8" -> 8

\* The hvac mode hvac_mode reads out of MODE_MAP's name of a device mode:
\* a name holding "обогрев" is heat, "охлаждение" cool, "авто" auto, else fan only.
HvacOfMode(mode) ==
    CASE mode \in {0, 2} -> HVAC_HEAT
      [] mode \in {1, 3} -> HVAC_COOL
      [] OTHER -> HVAC_FAN_ONLY

\* What each property reads from coordinator.data alone.
PolledTargetTemperature(d) ==
    IF d = None THEN None ELSE Some(ValueOf(d).temperature_target)
PolledFanMode(d) ==
    IF d = None THEN None ELSE Some(Str(ValueOf(d).speed_target))
PolledHvacMode(d) ==
    IF d = None THEN Some(HVAC_OFF)
    ELSE IF ~ValueOf(d).power THEN Some(HVAC_OFF)
    ELSE Some(HvacOfMode(ValueOf(d).mode))

Present_SnapshotFirst(override, polled) == IF polled # None THEN polled ELSE override

\* The properties' rule: the override when there is one, else the polled value.
Present(override, polled) == IF override # None THEN override ELSE polled

\* BreezartClimate.target_temperature / fan_mode / hvac_mode
target_temperature == Present(optimistic_target_temp, PolledTargetTemperature(data))
fan_mode == Present(optimistic_fan_mode, PolledFanMode(data))
hvac_mode == Present(optimistic_hvac_mode, PolledHvacMode(data))

\* The entity's members by the name of the field they belong to.
Override(field) ==
    CASE field = "target_temp" -> optimistic_target_temp
      [] field = "fan_mode" -> optimistic_fan_mode
      [] field = "hvac_mode" -> optimistic_hvac_mode

Presented(field) ==
    CASE field = "target_temp" -> target_temperature
      [] field = "fan_mode" -> fan_mode
      [] field = "hvac_mode" -> hvac_mode

Polled(field) ==
    CASE field = "target_temp" -> PolledTargetTemperature(data)
      [] field = "fan_mode" -> PolledFanMode(data)
      [] field = "hvac_mode" -> PolledHvacMode(data)

Fields == {"target_temp", "fan_mode", "hvac_mode"}

\* -------------------------------------------------------------- poll tick
FirstRequest_Always(loaded) == "send_props"

\* if not self._properties_loaded: get_properties(); then get_state()
FirstRequest(loaded) == IF loaded THEN "send_state" ELSE "send_props"

PropertiesLoadedAfter_Ready(exc, loaded) == TRUE

\* self._properties_loaded = False, in the connection-fault clause only
PropertiesLoadedAfter(exc, loaded) == IF IsConnectionFault(exc) THEN FALSE ELSE loaded

\* data = {**state, **sensors} plus the client's cached properties.
Snapshot(st, sens, props) ==
    [power |-> DecodeState(st).power,
     mode |-> DecodeState(st).mode,
     temperature_target |-> DecodeState(st).temperature_target,
     speed_target |-> DecodeState(st).speed_target,
     sensors |-> sens,
     props |-> props]

DataAfterFailure_Partial(old, st) ==
    IF st = None \/ old = None THEN old
    ELSE Some(Snapshot(ValueOf(st), ValueOf(old).sensors, ValueOf(old).props))

DataAfterFailure_Dropped(old, st) == None

\* raise UpdateFailed: coordinator.data keeps the last published Snapshot.
DataAfterFailure(old, st) == old

\* What the exception raised as `cause` carries, beyond its class.
DetailOf(cause, buf) ==
    IF cause = "device_error" THEN Some(CheckErrorMessage(Head(buf))) ELSE None

\* The except clauses of _async_update_data, entered with `cause`; pend and buf
\* are the socket's queues as the failing call left them.  The connection-fault
\* clause resets _properties_loaded and disconnects: close(), then an await of
\* wait_closed().  Either clause ends in raise UpdateFailed ("failed").
TickRaise(cause, pend, buf) ==
    /\ data' = DataAfterFailure(data, tick.state)
    /\ properties_loaded' = PropertiesLoadedAfter(ExcOf(cause), properties_loaded)
    /\ IF IsConnectionFault(ExcOf(cause)) /\ writer # "none"
       THEN /\ writer' = "closing"
            /\ reader' = "closing"
            /\ pending' = <<>>
            /\ rx' = <<>>
            /\ timed_out' = FALSE
            /\ props_on_conn' = FALSE
            /\ cmd' = IF CmdWaiting THEN [cmd EXCEPT !.pc = "dead"] ELSE cmd
            /\ tick' = [pc |-> "closing", state |-> None, cause |-> cause,
                        detail |-> DetailOf(cause, rx),
                        ready_before |-> properties_loaded, close |-> "none"]
       ELSE /\ UNCHANGED <<writer, reader, timed_out, props_on_conn, cmd>>
            /\ pending' = pend
            /\ rx' = buf
            /\ tick' = [pc |-> "failed", state |-> None, cause |-> cause,
                        detail |-> DetailOf(cause, rx),
                        ready_before |-> properties_loaded, close |-> "none"]

\* The scheduler starts a tick (the poll interval, or a requested refresh).
TickStart ==
    /\ tick.pc = "idle"
    /\ ~CmdAtomic
    /\ tick' = [tick EXCEPT !.pc = "start"]
    /\ UNCHANGED <<sessionVars, properties_loaded, client_props, data, cmd,
                   overlayVars, now, codec>>

\* if not self.client._writer: await connect(); else straight to the first fetch.
TickBegin ==
    /\ tick.pc = "start"
    /\ tick' = [tick EXCEPT !.pc = IF writer = "none" THEN "connecting"
                                   ELSE FirstRequest(properties_loaded)]
    /\ UNCHANGED <<sessionVars, properties_loaded, client_props, data, cmd,
                   overlayVars, now, codec>>

\* connect() returns with a fresh reader and writer.
ConnectOk ==
    /\ tick.pc = "connecting"
    /\ ~CmdAtomic
    /\ writer' = "open"
    /\ reader' = "open"
    /\ pending' = <<>>
    /\ rx' = <<>>
    /\ timed_out' = FALSE
    /\ props_on_conn' = FALSE
    /\ tick' = [tick EXCEPT !.pc = FirstRequest(properties_loaded)]
    /\ UNCHANGED <<properties_loaded, client_props, data, cmd, overlayVars, now, codec>>

\* connect() raises OSError (refused) or asyncio.TimeoutError.
ConnectFail ==
    /\ tick.pc = "connecting"
    /\ ~CmdAtomic
    /\ \E cause \in {"connect_refused", "connect_timeout"} :
         TickRaise(cause, pending, rx)
    /\ UNCHANGED <<client_props, overlayVars, now, codec>>

\* _send up to its first await: the connection test, the write, the start of the
\* read.  A second readuntil() on a reader another coroutine waits on raises
\* RuntimeError, which _send turns into ConnectionError.
TickSend ==
    /\ tick.pc \in {"send_props", "send_state", "send_sensors"}
    /\ LET type == TypeOfPc(tick.pc)
           sent == Written(pending, BuildRequest(type, None))
       IN  IF writer = "none" \/ reader = "none"
           THEN TickRaise("not_connected", pending, rx)
           ELSE IF writer = "closing"
           THEN TickRaise("read_error", pending, rx)
           ELSE IF CmdWaiting /\ ~LineBuffered
           THEN TickRaise("read_error", sent, rx)
           ELSE /\ pending' = sent
                /\ tick' = [tick EXCEPT !.pc = IF CmdWaiting THEN RecvPc(type)
                                                ELSE WaitPc(type)]
                /\ UNCHANGED <<writer, reader, rx, timed_out, props_on_conn,
                               properties_loaded, data, cmd>>
    /\ UNCHANGED <<client_props, overlayVars, now, codec>>

\* readuntil() returns the next buffered line; the fetch decodes it and the tick
\* goes on to its next request, or returns the Snapshot after the sensors, which
\* the coordinator publishes to its listeners.
TickRead ==
    /\ tick.pc \in {"wait_props", "wait_state", "wait_sensors",
                    "recv_props", "recv_state", "recv_sensors"}
    /\ ~CmdAtomic
    /\ LineBuffered
    /\ LET type == TypeOfPc(tick.pc)
           r == Head(rx)
           res == FetchCheck(type, r)
       IN  IF res # "ok"
           THEN /\ TickRaise(res, pending, Rest(rx))
                /\ UNCHANGED <<client_props, overlayVars>>
           ELSE /\ rx' = Rest(rx)
                /\ UNCHANGED <<writer, reader, pending, timed_out, cmd>>
                /\ CASE type = REQ_GET_PROPERTIES ->
                          /\ client_props' = r.val
                          /\ properties_loaded' = TRUE
                          /\ props_on_conn' = TRUE
                          /\ tick' = [tick EXCEPT !.pc = "send_state"]
                          /\ UNCHANGED <<data, overlayVars>>
                     [] type = REQ_GET_STATE ->
                          /\ tick' = [tick EXCEPT !.pc = "send_sensors",
                                                  !.state = Some(r.val)]
                          /\ UNCHANGED <<client_props, properties_loaded,
                                         props_on_conn, data, overlayVars>>
                     [] type = REQ_GET_SENSORS ->
                          /\ data' = Some(Snapshot(ValueOf(tick.state),
                                                   DecodeSensors(r.val), client_props))
                          /\ HandleCoordinatorUpdate
                          /\ tick' = IdleTick
                          /\ UNCHANGED <<client_props, properties_loaded, props_on_conn>>
    /\ UNCHANGED <<now, codec>>

\* wait_for(readuntil) times out: no newline arrived.
TickTimeout ==
    /\ TickWaiting
    /\ ~CmdAtomic
    /\ ~LineBuffered
    /\ TickRaise("no_response", pending, rx)
    /\ UNCHANGED <<client_props, overlayVars, now, codec>>

\* readuntil raises: the peer reset or closed the connection.
TickReadError ==
    /\ TickWaiting
    /\ ~CmdAtomic
    /\ TickRaise("read_error", pending, rx)
    /\ UNCHANGED <<client_props, overlayVars, now, codec>>

\* How close() and wait_closed() may end: they return, or one of them raises.
CloseOutcomes == {"closed", "close_error"}

StreamAfterClose_ErrorKeeps(outcome) == IF outcome = "close_error" THEN "closing" ELSE "none"

\* except Exception: pass; then self._writer = None, self._reader = None
StreamAfterClose(outcome) == "none"

\* disconnect() after wait_closed(): both streams are dropped, whether the close
\* raised or not, and the except clause goes on to raise UpdateFailed.
TickCloseDone ==
    /\ tick.pc = "closing"
    /\ ~CmdAtomic
    /\ \E outcome \in CloseOutcomes :
         /\ writer' = StreamAfterClose(outcome)
         /\ reader' = StreamAfterClose(outcome)
         /\ tick' = [tick EXCEPT !.pc = "failed", !.close = outcome]
    /\ UNCHANGED <<pending, rx, timed_out, props_on_conn, properties_loaded,
                   client_props, data, cmd, overlayVars, now, codec>>

\* raise UpdateFailed: the tick is over.
TickFinish ==
    /\ tick.pc = "failed"
    /\ tick' = IdleTick
    /\ UNCHANGED <<sessionVars, properties_loaded, client_props, data, cmd,
                   overlayVars, now, codec>>

\* --------------------------------------------------------- entity commands
OverrideAfterFailure_Kept(field, own, cur) == cur

\* except Exception: self._optimistic_<field> = None, in the handler of that field
OverrideAfterFailure(field, own, cur) == IF field = own THEN None ELSE cur

\* A client call of the running command raised `cause`.  The climate handlers
\* catch it, clear their override and return; the switch lets it reach the caller.
CmdRaise(cause) ==
    /\ cmd' = [cmd EXCEPT !.pc = "failed", !.cause = cause,
                         !.detail = DetailOf(cause, rx)]
    /\ optimistic_target_temp' =
         OverrideAfterFailure(cmd.field, "target_temp", optimistic_target_temp)
    /\ optimistic_fan_mode' =
         OverrideAfterFailure(cmd.field, "fan_mode", optimistic_fan_mode)
    /\ optimistic_hvac_mode' =
         OverrideAfterFailure(cmd.field, "hvac_mode", optimistic_hvac_mode)
    /\ UNCHANGED <<optimistic_set_time, last_issued>>

\* Entities exist once async_config_entry_first_refresh has published.
CanIssue ==
    /\ cmd.pc = "idle"
    /\ ~TickAtomic
    /\ data # None

\* BreezartPowerSwitch.async_turn_on / async_turn_off
SwitchTurn ==
    /\ CanIssue
    /\ \E on \in BOOLEAN :
         cmd' = [pc |-> "issued", entity |-> "switch", field |-> "none", arg |-> Some(on),
                 reqs |-> <<BuildRequest(REQ_SET_POWER,
                                         Some(IF on THEN POWER_ON ELSE POWER_OFF))>>,
                 cause |-> "none", detail |-> None]
    /\ UNCHANGED <<sessionVars, coordVars, overlayVars, now, codec>>

\* BreezartClimate.async_set_temperature, up to the client call
ClimateSetTemperature ==
    /\ CanIssue
    /\ \E temperature \in TemperatureInputs :
         /\ optimistic_target_temp' = Some(temperature)
         /\ cmd' = [pc |-> "issued", entity |-> "climate", field |-> "target_temp",
                    arg |-> Some(temperature),
                    reqs |-> <<BuildRequest(REQ_SET_TEMP, Some(temperature))>>,
                    cause |-> "none", detail |-> None]
    /\ optimistic_set_time' = now
    /\ last_issued' = "target_temp"
    /\ UNCHANGED <<sessionVars, coordVars, optimistic_fan_mode, optimistic_hvac_mode, now, codec>>

\* BreezartClimate.async_set_fan_mode, up to the client call
ClimateSetFanMode ==
    /\ CanIssue
    /\ \E mode \in FanModeInputs :
         /\ optimistic_fan_mode' = Some(mode)
         /\ cmd' = [pc |-> "issued", entity |-> "climate", field |-> "fan_mode",
                    arg |-> Some(mode),
                    reqs |-> <<BuildRequest(REQ_SET_FAN_SPEED, Some(ParseInt(mode)))>>,
                    cause |-> "none", detail |-> None]
    /\ optimistic_set_time' = now
    /\ last_issued' = "fan_mode"
    /\ UNCHANGED <<sessionVars, coordVars, optimistic_target_temp, optimistic_hvac_mode,
                   now, codec>>

\* The data word async_set_hvac_mode passes to set_mode.
ModeWord(mode) ==
    CASE mode = HVAC_HEAT -> 0
      [] mode = HVAC_COOL -> 1
      [] mode = HVAC_AUTO -> 2
      [] mode = HVAC_FAN_ONLY -> 3

\* The client calls async_set_hvac_mode makes, in order.
HvacRequests(mode, power) ==
    IF mode = HVAC_OFF
    THEN <<BuildRequest(REQ_SET_POWER, Some(POWER_OFF))>>
    ELSE (IF power THEN <<>> ELSE <<BuildRequest(REQ_SET_POWER, Some(POWER_ON))>>)
         \o <<BuildRequest(REQ_SET_MODE, Some(ModeWord(mode)))>>

\* BreezartClimate.async_set_hvac_mode, up to the first client call
ClimateSetHvacMode ==
    /\ CanIssue
    /\ \E mode \in HvacInputs :
         /\ optimistic_hvac_mode' = Some(mode)
         /\ cmd' = [pc |-> "issued", entity |-> "climate", field |-> "hvac_mode",
                    arg |-> Some(mode),
                    reqs |-> HvacRequests(mode, ValueOf(data).power),
                    cause |-> "none", detail |-> None]
    /\ optimistic_set_time' = now
    /\ last_issued' = "hvac_mode"
    /\ UNCHANGED <<sessionVars, coordVars, optimistic_target_temp, optimistic_fan_mode,
                   now, codec>>

\* BreezartClimate.async_turn_on / async_turn_off, up to the client call
ClimateTurn ==
    /\ CanIssue
    /\ \E on \in BOOLEAN :
         /\ optimistic_hvac_mode' = Some(IF on THEN HVAC_HEAT ELSE HVAC_OFF)
         /\ cmd' = [pc |-> "issued", entity |-> "climate", field |-> "hvac_mode",
                    arg |-> Some(IF on THEN HVAC_HEAT ELSE HVAC_OFF),
                    reqs |-> <<BuildRequest(REQ_SET_POWER,
                                            Some(IF on THEN POWER_ON ELSE POWER_OFF))>>,
                    cause |-> "none", detail |-> None]
    /\ optimistic_set_time' = now
    /\ last_issued' = "hvac_mode"
    /\ UNCHANGED <<sessionVars, coordVars, optimistic_target_temp, optimistic_fan_mode,
                   now, codec>>

\* _send of the command's next client call, up to its first await.
CmdSend ==
    /\ cmd.pc \in {"issued", "send"}
    /\ LET sent == Written(pending, Head(cmd.reqs))
       IN  IF writer = "none" \/ reader = "none"
           THEN CmdRaise("not_connected") /\ UNCHANGED pending
           ELSE IF writer = "closing"
           THEN CmdRaise("read_error") /\ UNCHANGED pending
           ELSE IF TickWaiting /\ ~LineBuffered
           THEN CmdRaise("read_error") /\ pending' = sent
           ELSE /\ pending' = sent
                /\ cmd' = [cmd EXCEPT !.pc = IF TickWaiting THEN "recv" ELSE "wait"]
                /\ UNCHANGED overlayVars
    /\ UNCHANGED <<writer, reader, rx, timed_out, props_on_conn, coordVars, now, codec>>

\* readuntil() returns the next buffered line: the call fails unless it is OK;
\* after the last call the handler goes on to request a refresh.
CmdRead ==
    /\ cmd.pc \in {"wait", "recv"}
    /\ ~TickAtomic
    /\ LineBuffered
    /\ rx' = Rest(rx)
    /\ LET res == CommandCheck(Head(rx))
       IN  IF res # "ok"
           THEN CmdRaise(res)
           ELSE /\ cmd' = IF Len(cmd.reqs) > 1
                          THEN [cmd EXCEPT !.pc = "send", !.reqs = Tail(cmd.reqs)]
                          ELSE [IdleCmd EXCEPT !.pc = "refresh",
                                               !.entity = cmd.entity]
                /\ UNCHANGED overlayVars
    /\ UNCHANGED <<writer, reader, pending, timed_out, props_on_conn, coordVars, now, codec>>

\* wait_for(readuntil) times out in a command: the connection stays as it is.
CmdTimeout ==
    /\ CmdWaiting
    /\ ~TickAtomic
    /\ ~LineBuffered
    /\ CmdRaise("no_response")
    /\ timed_out' = TRUE
    /\ UNCHANGED <<writer, reader, pending, rx, props_on_conn, coordVars, now, codec>>

\* The tick closed the connection the command was reading from.
CmdConnectionLost ==
    /\ cmd.pc = "dead"
    /\ ~TickAtomic
    /\ CmdRaise("read_error")
    /\ UNCHANGED <<sessionVars, coordVars, now, codec>>

\* await self.coordinator.async_request_refresh(), the handler's last statement
CmdRequestRefresh ==
    /\ cmd.pc = "refresh"
    /\ ~TickAtomic
    /\ cmd' = IdleCmd
    /\ UNCHANGED <<sessionVars, coordVars, overlayVars, now, codec>>

\* The handler returns (climate) or the exception leaves it (switch).
CmdFinish ==
    /\ cmd.pc = "failed"
    /\ cmd' = IdleCmd
    /\ UNCHANGED <<sessionVars, coordVars, overlayVars, now, codec>>

\* ------------------------------------------------------------ environment
\* The device answers its oldest unanswered request.
DeviceReply ==
    /\ writer = "open"
    /\ ~TickAtomic /\ ~CmdAtomic
    /\ pending # <<>>
    /\ Len(rx) < MaxRx
    /\ \E r \in Replies(Head(pending).type) : rx' = Append(rx, r)
    /\ pending' = Tail(pending)
    /\ UNCHANGED <<writer, reader, timed_out, props_on_conn, coordVars, cmd,
                   overlayVars, now, codec>>

\* The same, the device answering with any of its five error tags.
DeviceReplyAnyError ==
    /\ writer = "open"
    /\ ~TickAtomic /\ ~CmdAtomic
    /\ pending # <<>>
    /\ Len(rx) < MaxRx
    /\ \E r \in RepliesWith(Head(pending).type, DOMAIN ERROR_PREFIX) :
         rx' = Append(rx, r)
    /\ pending' = Tail(pending)
    /\ UNCHANGED <<writer, reader, timed_out, props_on_conn, coordVars, cmd,
                   overlayVars, now, codec>>

\* The device answers its oldest unanswered request correctly, framed as it likes.
DeviceReplyFramed ==
    /\ writer = "open"
    /\ ~TickAtomic /\ ~CmdAtomic
    /\ pending # <<>>
    /\ Len(rx) < MaxRx
    /\ \E r \in FramedReplies(Head(pending).type) : rx' = Append(rx, r)
    /\ pending' = Tail(pending)
    /\ UNCHANGED <<writer, reader, timed_out, props_on_conn, coordVars, cmd,
                   overlayVars, now, codec>>

\* The lines a device may answer a read request with that its decoder cannot
\* use: another response's tag, or the right tag and no data tokens.
MalformedReplies(type) ==
    {[tag |-> t, val |-> "-", end |-> "newline"] :
        t \in ({RESP_PROPERTIES, RESP_STATE, RESP_SENSORS, RESP_OK, JunkTag}
                  \ {RespTag(type)})}
    \cup {[tag |-> RespTag(type), val |-> "short", end |-> "newline"]}

\* The device answers its oldest unanswered request with such a line.
DeviceReplyMalformed ==
    /\ writer = "open"
    /\ ~TickAtomic /\ ~CmdAtomic
    /\ pending # <<>>
    /\ Len(rx) < MaxRx
    /\ \E r \in MalformedReplies(Head(pending).type) : rx' = Append(rx, r)
    /\ pending' = Tail(pending)
    /\ UNCHANGED <<writer, reader, timed_out, props_on_conn, coordVars, cmd,
                   overlayVars, now, codec>>

\* wait_for(readuntil) times out although the device has answered every request.
TickTimeoutAfterAnswer == pending = <<>> /\ TickTimeout

\* Time passes.  Every wait_for ends within the 5 s timeout, which is less than
\* one step of the clock: no coroutine stays in one across a step.
Advance ==
    /\ ~TickAtomic /\ ~CmdAtomic
    /\ ~TickWaiting /\ ~CmdWaiting /\ tick.pc # "connecting"
    /\ now + TimeStep <= MaxNow
    /\ now' = now + TimeStep
    /\ UNCHANGED <<sessionVars, coordVars, cmd, overlayVars, codec>>

\* ---------------------------------------------------------- specifications
\* Session and coordinator: poll ticks beside power-switch commands.
Next ==
    \/ TickStart \/ TickBegin \/ ConnectOk \/ ConnectFail \/ TickSend \/ TickRead
    \/ TickTimeout \/ TickReadError \/ TickCloseDone \/ TickFinish
    \/ SwitchTurn
    \/ CmdSend \/ CmdRead \/ CmdTimeout \/ CmdConnectionLost \/ CmdFinish
    \/ CmdRequestRefresh
    \/ DeviceReply

Spec == Init /\ [][Next]_vars

\* Optimistic overlay: poll ticks beside climate commands, with the clock.
NextOverlay ==
    \/ TickStart \/ TickBegin \/ ConnectOk \/ ConnectFail \/ TickSend \/ TickRead
    \/ TickTimeout \/ TickReadError \/ TickCloseDone \/ TickFinish
    \/ ClimateSetTemperature \/ ClimateSetFanMode \/ ClimateSetHvacMode \/ ClimateTurn
    \/ CmdSend \/ CmdRead \/ CmdTimeout \/ CmdConnectionLost \/ CmdFinish
    \/ CmdRequestRefresh
    \/ DeviceReply \/ Advance

SpecOverlay == Init /\ [][NextOverlay]_vars

\* Device errors: poll ticks beside climate commands, the device answering with
\* every error tag; the clock stands still.
NextErrors ==
    \/ TickStart \/ TickBegin \/ ConnectOk \/ ConnectFail \/ TickSend \/ TickRead
    \/ TickTimeout \/ TickReadError \/ TickCloseDone \/ TickFinish
    \/ ClimateSetTemperature \/ ClimateSetFanMode \/ ClimateSetHvacMode \/ ClimateTurn
    \/ CmdSend \/ CmdRead \/ CmdTimeout \/ CmdConnectionLost \/ CmdFinish
    \/ CmdRequestRefresh
    \/ DeviceReplyAnyError

SpecErrors == Init /\ [][NextErrors]_vars

\* Hex codec: every value _dec_to_hex may be given, and tokens the device may
\* spell otherwise (capitals, leading zeros), each with the value it stands for.
ValueInputs == (0 - OverRange)..(MaxWord + OverRange)
SpelledTokens ==
    {[kind |-> "token", value |-> 65535, text |-> <<"F", "F", "F", "F">>, parts |-> <<>>],
     [kind |-> "token", value |-> 255, text |-> <<"0", "0", "f", "f">>, parts |-> <<>>],
     [kind |-> "token", value |-> 64263, text |-> <<"F", "B", "0", "7">>, parts |-> <<>>]}
HexInputs ==
    {[kind |-> "value", value |-> x, text |-> <<>>, parts |-> <<>>] : x \in ValueInputs}
    \cup SpelledTokens

InitHex ==
    /\ InitProgram
    /\ \E i \in HexInputs : codec = [op |-> "input", in |-> i, via |-> None, out |-> None]

\* A pure function is called on `via`, made from the input `in`, and returns `out`.
\* __init__: the properties the client holds before any get_properties.
DefaultProperties ==
    [temp_min |-> 15, temp_max |-> 30, speed_min |-> 1, speed_max |-> 10,
     has_cooler |-> FALSE, has_humidifier |-> FALSE,
     firmware_ver |-> None, protocol_ver |-> None]

\* get_properties: the properties the client holds when the call is over, having
\* held cached before it.  The attributes are assigned one after the other, each
\* from its token, up to the first token the response lacks.
PropertiesAfter(cached, parts) ==
    IF parts = <<>> \/ Part(parts, 0) # RESP_PROPERTIES THEN cached
    ELSE LET n == Len(parts)
             c1 == IF n > 1
                   THEN [cached EXCEPT !.temp_min = ParseBits(Part(parts, 1), 0, 7),
                                       !.temp_max = ParseBits(Part(parts, 1), 8, 15)]
                   ELSE cached
             c2 == IF n > 2
                   THEN [c1 EXCEPT !.speed_min = ParseBits(Part(parts, 2), 0, 7),
                                   !.speed_max = ParseBits(Part(parts, 2), 8, 15)]
                   ELSE c1
             c4 == IF n > 4
                   THEN [c2 EXCEPT !.has_cooler = ParseBits(Part(parts, 4), 14, 14) # 0,
                                   !.has_humidifier = ParseBits(Part(parts, 4), 13, 13) # 0]
                   ELSE c2
             c5 == IF n > 5
                   THEN [c4 EXCEPT !.protocol_ver =
                            Some(ProtocolVersion(ParseBits(Part(parts, 5), 8, 15),
                                                 ParseBits(Part(parts, 5), 0, 7)))]
                   ELSE c4
         IN  IF n > 7 THEN [c5 EXCEPT !.firmware_ver = Some(HexToDec(Part(parts, 7)))]
             ELSE c5

\* The properties a client may hold when get_properties is called: the defaults,
\* or those of an earlier response.
CachedInputs ==
    {DefaultProperties,
     PropertiesAfter(DefaultProperties,
                     <<RESP_PROPERTIES, DecToHex(4620), DecToHex(2306), DecToHex(3),
                       DecToHex(8192), DecToHex(522), DecToHex(6), DecToHex(77)>>)}

Call(op, via, out) ==
    /\ codec' = [op |-> op, in |-> codec.in, via |-> via, out |-> out]
    /\ UNCHANGED programVars

Call_dec_to_hex ==
    /\ codec.op = "input"
    /\ codec.in.kind = "value"
    /\ Call("_dec_to_hex", None, _dec_to_hex(codec.in.value))

\* The token a decoder is given: the text just encoded, or the token as spelled.
TokenAt(c) == IF c.op = "_dec_to_hex" THEN c.out.text ELSE c.in.text
HasToken(c) ==
    \/ c.op = "_dec_to_hex" /\ c.out.exc = "none"
    \/ c.op = "input" /\ c.in.kind = "token"

Call_hex_to_dec ==
    /\ HasToken(codec)
    /\ Call("_hex_to_dec", TokenAt(codec), HexToDec(TokenAt(codec)))

Call_hex_to_dec_sign ==
    /\ HasToken(codec)
    /\ Call("_hex_to_dec_sign", TokenAt(codec), HexToDecSign(TokenAt(codec)))

NextHex == Call_dec_to_hex \/ Call_hex_to_dec \/ Call_hex_to_dec_sign

SpecHex == InitHex /\ [][NextHex]_vars

\* Decoders: words and whole responses as the device may send them.
RECURSIVE Pow2(_)
Pow2(k) == IF k = 0 THEN 1 ELSE 2 * Pow2(k - 1)

\* Words with one bit set, none, all, and the byte borders.
WordInputs ==
    {Pow2(k) : k \in 0..(WordBits - 1)}
    \cup {0, 127, 255, 383, 32767, 65280, 65534, MaxWord, 42435, 23130}

\* A state response of ten tokens whose word i is w.
StateWith(i, w) ==
    [j \in 1..10 |->
        IF j = 1 THEN RESP_STATE
        ELSE IF j = i + 1 THEN DecToHex(w)
        ELSE DecToHex(CASE j = 2 -> 65 [] j = 3 -> 9 [] j = 4 -> 5142
                            [] j = 5 -> 50 [] j = 6 -> 21043 [] j = 7 -> 9056
                            [] OTHER -> j)]

\* The same with the message token, cut after word 6, cut short, or mistagged.
StateResponses ==
    LET full == {StateWith(i, w) : i \in 1..6, w \in WordInputs}
    IN  full
        \cup {Append(p, <<"m", "s", "g">>) : p \in full}
        \cup {SubSeq(p, 1, 7) : p \in full}
        \cup {SubSeq(StateWith(1, 1), 1, n) : n \in 0..6}
        \cup {[StateWith(1, 1) EXCEPT ![1] = JunkTag]}

\* What a sensor channel's token may be: the sentinel as the code spells it, a
\* positive and a negative reading, and the sentinel's value in capitals.
SensorTokens ==
    {SentinelToken, DecToHex(230), DecToHex(65436), <<"F", "B", "0", "7">>}

SensorResponses ==
    LET full == {<<RESP_SENSORS, t1, DecToHex(2), t3, DecToHex(4), t5, DecToHex(6), t7, t8>> :
                    t1 \in SensorTokens, t3 \in SensorTokens, t5 \in SensorTokens,
                    t7 \in SensorTokens, t8 \in SensorTokens}
        one == <<RESP_SENSORS, SentinelToken, DecToHex(2), DecToHex(230), DecToHex(4),
                 SentinelToken, DecToHex(6), DecToHex(230), DecToHex(230)>>
    IN  full \cup {SubSeq(one, 1, n) : n \in 0..8} \cup {[one EXCEPT ![1] = JunkTag]}

PropertiesResponses ==
    LET full == {<<RESP_PROPERTIES, DecToHex(t), DecToHex(sp), DecToHex(3), DecToHex(m),
                   DecToHex(pr), DecToHex(6), DecToHex(fw)>> :
                    t \in {7695, 7184, 0}, sp \in {2561, 1793},
                    m \in {0, 16384, 8192, 24576, MaxWord, 40959},
                    pr \in {263, 522, 2560}, fw \in {500, 0, MaxWord}}
        one == <<RESP_PROPERTIES, DecToHex(7184), DecToHex(1793), DecToHex(3),
                 DecToHex(16384), DecToHex(263), DecToHex(6), DecToHex(500)>>
    IN  full \cup {Append(p, DecToHex(9)) : p \in full}
             \cup {SubSeq(one, 1, n) : n \in 0..7} \cup {[one EXCEPT ![1] = JunkTag]}

\* Every line of at most MaxLine characters over a delimiter and two others, and
\* a state response with a doubled delimiter.
LineInputs ==
    UNION {[1..n -> {DELIMITER, "a", "b"}] : n \in 0..MaxLine}
    \cup {<<"V", "S", "t", "0", "7", "_", "_", "1", "a", "_", "2", "b">>}

\* The requests the client's methods build: reads without a data word, commands
\* with the word their caller passes.
ReadTypes == {REQ_GET_PROPERTIES, REQ_GET_STATE, REQ_GET_SENSORS}
CommandTypes == {REQ_SET_POWER, REQ_SET_TEMP, REQ_SET_FAN_SPEED, REQ_SET_MODE}
PasswordInputs == {0, 1, 43981, MaxWord}
DataInputs(type) ==
    CASE type \in ReadTypes -> {None}
      [] type = REQ_SET_POWER -> {Some(POWER_ON), Some(POWER_OFF)}
      [] type = REQ_SET_TEMP -> {Some(0), Some(22), Some(0 - 5)}
      [] type = REQ_SET_FAN_SPEED -> {Some(0), Some(8), Some(10)}
      [] type = REQ_SET_MODE -> {Some(0), Some(3), Some(4)}

DecodeInputs ==
    {[kind |-> "request", value |-> pw, text |-> <<t>>, parts |-> <<>>] :
        pw \in PasswordInputs, t \in ReadTypes \cup CommandTypes} \cup
    {[kind |-> "line", value |-> 0, text |-> l, parts |-> <<>>] : l \in LineInputs} \cup
    {[kind |-> "token", value |-> w, text |-> DecToHex(w), parts |-> <<>>] : w \in WordInputs}
    \cup SpelledTokens
    \cup {[kind |-> "state", value |-> 0, text |-> <<>>, parts |-> p] : p \in StateResponses}
    \cup {[kind |-> "sensors", value |-> 0, text |-> <<>>, parts |-> p] : p \in SensorResponses}
    \cup {[kind |-> "properties", value |-> 0, text |-> <<>>, parts |-> p] :
             p \in PropertiesResponses}

InitDecode ==
    /\ InitProgram
    /\ \E i \in DecodeInputs : codec = [op |-> "input", in |-> i, via |-> None, out |-> None]

Call_parse_bits ==
    /\ codec.op = "input"
    /\ codec.in.kind = "token"
    /\ \E from_bit \in 0..(WordBits - 1) : \E to_bit \in from_bit..(WordBits - 1) :
         Call("_parse_bits", codec.in.text,
              [from_bit |-> from_bit, to_bit |-> to_bit,
               value |-> ParseBits(codec.in.text, from_bit, to_bit)])

Call_get_state ==
    /\ codec.op = "input"
    /\ codec.in.kind = "state"
    /\ Call("get_state", None, GetState(codec.in.parts))

Call_get_sensors ==
    /\ codec.op = "input"
    /\ codec.in.kind = "sensors"
    /\ Call("get_sensors", None, GetSensors(codec.in.parts))

Call_get_properties ==
    /\ codec.op = "input"
    /\ codec.in.kind = "properties"
    /\ \E cached \in CachedInputs :
         Call("get_properties",
              [before |-> cached, after |-> PropertiesAfter(cached, codec.in.parts)],
              GetProperties(codec.in.parts))

Call_split_response ==
    /\ codec.op = "input"
    /\ codec.in.kind = "line"
    /\ Call("_split_response", codec.in.text, SplitResponse(codec.in.text))

Call_build_request ==
    /\ codec.op = "input"
    /\ codec.in.kind = "request"
    /\ \E word \in DataInputs(codec.in.text[1]) :
         Call("_build_request", word,
              BuildRequestText(codec.in.value, codec.in.text, word))

NextDecode ==
    \/ Call_parse_bits \/ Call_get_state \/ Call_get_sensors \/ Call_get_properties
    \/ Call_split_response \/ Call_build_request

SpecDecode == InitDecode /\ [][NextDecode]_vars

\* Closing: the behaviours of Spec in which the event loop runs every coroutine
\* that can run and every wait_for expires.  Nothing in the code makes
\* wait_closed() return: that is up to the transport and the peer.
SpecClose ==
    /\ Init
    /\ [][Next]_vars
    /\ WF_vars(TickBegin) /\ WF_vars(TickSend) /\ WF_vars(TickRead)
    /\ WF_vars(TickTimeout) /\ WF_vars(TickFinish)
    /\ WF_vars(CmdSend) /\ WF_vars(CmdRead) /\ WF_vars(CmdTimeout)
    /\ WF_vars(CmdConnectionLost) /\ WF_vars(CmdFinish) /\ WF_vars(CmdRequestRefresh)

\* Framing: poll ticks against a device that accepts every connection and answers
\* every request correctly and in time, with or without a newline.  The event
\* loop runs every coroutine that can run, the scheduler keeps starting ticks and
\* the device keeps answering, while time passes.
NextFraming ==
    \/ TickStart \/ TickBegin \/ ConnectOk \/ TickSend \/ TickRead
    \/ TickTimeoutAfterAnswer \/ TickCloseDone \/ TickFinish
    \/ DeviceReplyFramed \/ Advance

SpecFraming ==
    /\ Init
    /\ [][NextFraming]_vars
    /\ WF_vars(TickStart) /\ WF_vars(TickBegin) /\ WF_vars(ConnectOk)
    /\ WF_vars(TickSend) /\ WF_vars(TickRead) /\ WF_vars(TickTimeoutAfterAnswer)
    /\ WF_vars(TickCloseDone) /\ WF_vars(TickFinish) /\ WF_vars(DeviceReplyFramed)

\* The poll tick alone, against a device that may answer a request with a line
\* the decoder cannot use.
NextMalformed ==
    \/ TickStart \/ TickBegin \/ ConnectOk \/ TickSend \/ TickRead
    \/ TickCloseDone \/ TickFinish
    \/ DeviceReply \/ DeviceReplyMalformed

SpecMalformed == Init /\ [][NextMalformed]_vars

\* async_unload_entry, once the entry is set up (its first refresh has published)
\* and the platforms are unloaded, no tick or command being under way:
\* disconnect() up to its await of wait_closed().  Nothing else is reset.
UnloadEntry ==
    /\ tick.pc = "idle"
    /\ cmd.pc = "idle"
    /\ data # None
    /\ IF writer = "none"
       THEN /\ tick' = [tick EXCEPT !.pc = "unloaded"]
            /\ UNCHANGED sessionVars
       ELSE /\ writer' = "closing"
            /\ reader' = "closing"
            /\ pending' = <<>>
            /\ rx' = <<>>
            /\ timed_out' = FALSE
            /\ props_on_conn' = FALSE
            /\ tick' = [tick EXCEPT !.pc = "unloading"]
    /\ UNCHANGED <<properties_loaded, client_props, data, cmd, overlayVars, now, codec>>

\* wait_closed() returns or raises; disconnect() clears the writer and the reader
\* and the entry is unloaded.
UnloadDone ==
    /\ tick.pc = "unloading"
    /\ \E outcome \in CloseOutcomes :
         /\ writer' = StreamAfterClose(outcome)
         /\ reader' = StreamAfterClose(outcome)
         /\ tick' = [tick EXCEPT !.pc = "unloaded", !.close = outcome]
    /\ UNCHANGED <<pending, rx, timed_out, props_on_conn, properties_loaded,
                   client_props, data, cmd, overlayVars, now, codec>>

\* The poll ticks of an entry up to its unloading.
NextUnload ==
    \/ TickStart \/ TickBegin \/ ConnectOk \/ ConnectFail \/ TickSend \/ TickRead
    \/ TickTimeout \/ TickCloseDone \/ TickFinish
    \/ DeviceReply
    \/ UnloadEntry \/ UnloadDone

SpecUnload == Init /\ [][NextUnload]_vars

\* ------------------------------------------------------------------ claims
\* C1: a poll tick that fails with a transport failure (connect refused or timed
\* out, no response in time, empty response, read error, not connected) ends with
\* the session Disconnected, reader and writer cleared, and the coordinator in
\* NeedsProperties.
C1_TransportFailureDisconnects ==
    (tick.pc = "failed" /\ tick.cause \in TransportCauses)
        => (writer = "none" /\ reader = "none" /\ ~properties_loaded)

\* A Ready tick on an open connection got no response and has finished its handler.
C1_Witness ==
    /\ tick.pc = "failed"
    /\ tick.cause = "no_response"
    /\ tick.ready_before
    /\ writer = "none"

\* C2 (as claimed): a poll tick that fails with a protocol failure, an unexpected
\* leading tag or a device error tag, leaves the session Connected and the
\* NeedsProperties/Ready state as it was before the failing request.
C2_ProtocolFailureKeepsSession ==
    (tick.pc = "failed" /\ tick.cause \in ProtocolCauses)
        => (writer = "open" /\ reader = "open"
            /\ properties_loaded = tick.ready_before)

\* C3: between a successful connect and the next disconnect get_properties
\* succeeds at most once, and no state or sensors request is sent on a connection
\* on which properties have not been fetched.
C3_PropertiesOncePerConnection ==
    /\ [][(tick.pc \in {"wait_props", "recv_props"} /\ tick'.pc = "send_state")
            => ~props_on_conn]_vars
    /\ [](tick.pc \in {"wait_state", "recv_state", "wait_sensors", "recv_sensors"}
            => props_on_conn)

\* The sensors request is out on a connection whose properties were fetched, while
\* an earlier command on that connection has already timed out.
C3_Witness ==
    /\ tick.pc = "wait_sensors"
    /\ props_on_conn
    /\ timed_out

\* C4 (as claimed): the session never has two requests outstanding: no caller
\* writes its request while the other caller still waits for its response.
C4_OneOutstandingRequest ==
    /\ ~(writer = "open" /\ CmdWaiting
         /\ tick.pc \in {"send_props", "send_state", "send_sensors"})
    /\ ~(writer = "open" /\ TickWaiting /\ cmd.pc \in {"issued", "send"})

\* C5: a Snapshot is published only by the step that ends a tick's successful
\* sensors fetch, after the state fetch of that same tick; it holds the state read
\* in that tick and the sensors just read; a failing step publishes nothing.
C5_AtomicPublish ==
    [][data' # data =>
         /\ tick.pc \in {"wait_sensors", "recv_sensors"}
         /\ tick'.pc = "idle"
         /\ tick.state # None
         /\ rx # <<>>
         /\ FetchCheck(REQ_GET_SENSORS, Head(rx)) = "ok"
         /\ data' = Some(Snapshot(ValueOf(tick.state), DecodeSensors(Head(rx).val),
                                  client_props))]_vars

\* A Snapshot has been published and a later tick has read a different state and
\* now waits for the sensors.
C5_Witness ==
    /\ data # None
    /\ tick.pc = "wait_sensors"
    /\ tick.state # None
    /\ DecodeState(ValueOf(tick.state)).temperature_target
         # ValueOf(data).temperature_target

\* C6 (as claimed): after any network call has timed out, a poll tick's or a
\* command's, the next poll tick starts from a Disconnected session.
C6_TickStartsDisconnectedAfterTimeout ==
    (tick.pc = "start" /\ timed_out) => writer = "none"

\* C7 (as claimed): at every time later than the issue time of the last command
\* plus the 6 s hold window every field shows the last polled value, whether or
\* not a Snapshot arrived in between.
C7_OverrideGoneAfterHold ==
    now - optimistic_set_time > _OPTIMISTIC_HOLD_SECONDS
        => \A f \in Fields : Presented(f) = Polled(f)

\* The step in which a tick publishes its Snapshot and the listeners run.
SnapshotArrives == tick.pc \in {"wait_sensors", "recv_sensors"} /\ tick'.pc = "idle"

\* The only override is that of field f, issued by the last command.
SoleOverride(f) ==
    /\ last_issued = f
    /\ Override(f) # None
    /\ \A g \in Fields \ {f} : Override(g) = None

\* C8: for a field holding the only override, when a new Snapshot arrives the
\* override is cleared if and only if more than 6 s have passed since the command
\* was issued; within the 6 s the field keeps presenting the override, whatever
\* value the Snapshot has for it.
C8_ClearedOnlyAfterHold ==
    [][SnapshotArrives =>
         \A f \in Fields :
             SoleOverride(f) =>
                 /\ (Override(f)' = None)
                      <=> (now - optimistic_set_time > _OPTIMISTIC_HOLD_SECONDS)
                 /\ (now - optimistic_set_time <= _OPTIMISTIC_HOLD_SECONDS)
                      => (Presented(f)' = Override(f))]_vars

\* A Snapshot whose target temperature differs from the override is arriving
\* exactly 6 s after the temperature command was issued.
C8_Witness ==
    /\ tick.pc = "wait_sensors"
    /\ rx # <<>>
    /\ FetchCheck(REQ_GET_SENSORS, Head(rx)) = "ok"
    /\ SoleOverride("target_temp")
    /\ now - optimistic_set_time = _OPTIMISTIC_HOLD_SECONDS
    /\ tick.state # None
    /\ DecodeState(ValueOf(tick.state)).temperature_target
         # ValueOf(optimistic_target_temp)

\* C9: when the device call of a climate command has failed, then before the
\* handler returns the override of its field is cleared and the field presents
\* the polled value, whatever part of the hold window is left.
C9_FailureClearsOverride ==
    (cmd.pc = "failed" /\ cmd.entity = "climate")
        => (Override(cmd.field) = None /\ Presented(cmd.field) = Polled(cmd.field))

\* A temperature command got no answer and was cleared inside its hold window.
C9_Witness ==
    /\ cmd.pc = "failed"
    /\ cmd.entity = "climate"
    /\ cmd.field = "target_temp"
    /\ cmd.cause = "no_response"
    /\ now - optimistic_set_time <= _OPTIMISTIC_HOLD_SECONDS
    /\ target_temperature = Some(ValueOf(data).temperature_target)

\* C10: once a climate command is issued, before any request reaches the device,
\* the commanded field presents the commanded value, whatever the Snapshot says.
C10_PredictedValuePresented ==
    (cmd.pc = "issued" /\ cmd.entity = "climate")
        => Presented(cmd.field) = cmd.arg

\* A fan speed was commanded that differs from the Snapshot's speed_target.
C10_Witness ==
    /\ cmd.pc = "issued"
    /\ cmd.entity = "climate"
    /\ cmd.field = "fan_mode"
    /\ fan_mode = Some("8")
    /\ PolledFanMode(data) # Some("8")

\* The data word set_mode's docstring and MODE_SET_MAP give each mode.
ModeSetWord(mode) ==
    CASE mode = HVAC_HEAT -> 1
      [] mode = HVAC_COOL -> 2
      [] mode = HVAC_AUTO -> 3
      [] mode = HVAC_FAN_ONLY -> 4

\* C11 (as claimed): every set-mode request the device has received carries a data
\* word in 1..4, and while the hvac-mode command that sent it is running the word
\* is the one of the commanded mode: HEAT 1, COOL 2, AUTO 3, FAN_ONLY 4.
C11_ModeWordEnumerated ==
    \A i \in 1..Len(pending) :
        pending[i].type = REQ_SET_MODE
            => /\ HexToDec(ValueOf(pending[i].data)) \in 1..4
               /\ (cmd.pc \in {"wait", "recv"} /\ cmd.field = "hvac_mode")
                    => HexToDec(ValueOf(pending[i].data)) = ModeSetWord(ValueOf(cmd.arg))

\* C12 (as claimed): on a connection whose properties were fetched, no
\* set-temperature request reaches the device with a value outside
\* temp_min..temp_max and no set-fan-speed request with a value outside
\* speed_min..speed_max.
C12_CommandWithinDiscoveredBounds ==
    props_on_conn =>
        \A i \in 1..Len(pending) :
            LET v == HexToDec(ValueOf(pending[i].data))
                bounds == DecodeProperties(client_props)
            IN  /\ pending[i].type = REQ_SET_TEMP
                     => (bounds.temp_min <= v /\ v <= bounds.temp_max)
                /\ pending[i].type = REQ_SET_FAN_SPEED
                     => (bounds.speed_min <= v /\ v <= bounds.speed_max)

\* C13: whatever request a caller waits on (properties, state, sensors or a set
\* command), reading a response whose first token is one of the five error tags
\* makes the call fail with the device error that carries the tag's reason and the
\* response's tokens; the expected tag is not compared, nothing is decoded, and the
\* cached properties and the Snapshot stay as they were.
C13_ErrorTagFailsFirst ==
    [][/\ (TickRead /\ Head(rx).tag \in DOMAIN ERROR_PREFIX)
            => /\ tick'.pc \in {"closing", "failed"}
               /\ tick'.cause = "device_error"
               /\ tick'.detail = Some([reason |-> ERROR_PREFIX[Head(rx).tag],
                                       parts |-> Head(rx)])
               /\ tick'.state = None
               /\ client_props' = client_props
               /\ data' = data
       /\ (CmdRead /\ Head(rx).tag \in DOMAIN ERROR_PREFIX)
            => /\ cmd'.pc = "failed"
               /\ cmd'.cause = "device_error"
               /\ cmd'.detail = Some([reason |-> ERROR_PREFIX[Head(rx).tag],
                                      parts |-> Head(rx)])
               /\ client_props' = client_props
               /\ data' = data]_vars

\* A set-mode call has failed on the answer VEDat ("Error in request data").
C13_Witness ==
    /\ cmd.pc = "failed"
    /\ cmd.cause = "device_error"
    /\ Head(cmd.reqs).type = REQ_SET_MODE
    /\ cmd.detail # None
    /\ ValueOf(cmd.detail).reason = "Error in request data"

\* C14: a set_power, set_temperature, set_fan_speed or set_mode call that reads a
\* response returns normally (the handler goes on to its next call or to its
\* refresh request) if and only if the first token of the response is OK; on any
\* other response the call raises and the handler is in its failure path.
C14_OkOrRejected ==
    [][CmdRead =>
         /\ (cmd'.pc \in {"send", "refresh"}) <=> (Head(rx).tag = RESP_OK)
         /\ (Head(rx).tag # RESP_OK)
              => (cmd'.pc = "failed"
                  /\ cmd'.cause \in {"bad_tag", "device_error", "empty_response"})]_vars

\* set_power(True) of an hvac-mode command has returned on OK and set_mode is next.
C14_Witness ==
    /\ cmd.pc = "send"
    /\ cmd.field = "hvac_mode"
    /\ Len(cmd.reqs) = 1
    /\ Head(cmd.reqs).type = REQ_SET_MODE

\* The step in which a tick's get_properties raises.
PropertiesFetchFails ==
    /\ tick.pc \in {"send_props", "wait_props", "recv_props"}
    /\ tick'.pc \in {"closing", "failed"}

\* C15: when get_properties fails in a tick, whatever the failure, the coordinator
\* is not Ready afterwards and no Snapshot is published; the failed tick only ends
\* (no further request); the coordinator becomes Ready only by a successful
\* properties read, and no tick is at a state or sensors request unless Ready:
\* the next tick fetches properties before state.
C15_PropertiesFailureAbortsTick ==
    /\ [][PropertiesFetchFails => (~properties_loaded' /\ data' = data)]_vars
    /\ [][tick.pc \in {"closing", "failed"}
            => /\ tick'.pc \in {"closing", "failed", "idle"}
               /\ properties_loaded' = properties_loaded
               /\ data' = data]_vars
    /\ [][(~properties_loaded /\ properties_loaded')
            => (tick.pc \in {"wait_props", "recv_props"} /\ tick'.pc = "send_state")]_vars
    /\ [](tick.pc \in {"send_state", "wait_state", "recv_state",
                       "send_sensors", "wait_sensors", "recv_sensors"}
            => properties_loaded)

\* get_properties has failed on a foreign tag while a Snapshot of an earlier
\* connection is held: the connection stays open and the coordinator not Ready.
C15_Witness ==
    /\ tick.pc = "failed"
    /\ tick.cause = "bad_tag"
    /\ ~properties_loaded
    /\ writer = "open"
    /\ data # None

\* BreezartSensor.native_value: the Snapshot's value of a key, None without data.
SnapshotKeys == {"power", "mode", "temperature_target", "speed_target", "sensors", "props"}

native_value(key) == IF data = None THEN None ELSE Some(ValueOf(data)[key])

\* C16: a tick that fails changes nothing subscribers read: no step of a tick
\* before the end of its sensors fetch, no failing step and no step of the failure
\* path changes coordinator.data, so every key keeps its value until a later
\* tick publishes.
C16_FailedTickKeepsSnapshot ==
    [][(\/ tick.pc \notin {"wait_sensors", "recv_sensors"}
        \/ tick.pc \in {"closing", "failed"}
        \/ tick'.pc \in {"closing", "failed"})
          => (data' = data
              /\ \A key \in SnapshotKeys : native_value(key)' = native_value(key))]_vars

\* A tick has raised UpdateFailed on an empty response while a Snapshot is held.
C16_Witness ==
    /\ tick.pc = "failed"
    /\ tick.cause = "empty_response"
    /\ data # None
    /\ native_value("temperature_target") = Some(23)

\* C18 (as claimed): with a device that accepts connections and answers every
\* request correctly within the timeout, some tick publishes a Snapshot.
C18_EventuallyPublishes == <>(data # None)

\* C19 (as claimed): _send fails with a response timeout only when nothing has
\* arrived, and with an empty response only when what arrived is empty; every
\* other response that arrived, ended by a newline or not, is returned.
C19_TimeoutOnlyWhenNothingArrived ==
    [][/\ (TickTimeout \/ CmdTimeout) => rx = <<>>
       /\ (TickRead /\ tick'.cause = "empty_response") => Head(rx).tag = ""]_vars

\* C20 (as claimed): every command handler, once the device exchange of its
\* command has ended, requests a refresh from the coordinator before it returns.
C20_CommandRequestsRefresh ==
    [][(cmd.pc # "idle" /\ cmd'.pc = "idle") => CmdRequestRefresh]_vars

\* C21: once disconnect() has returned in a tick's connection-fault clause, the
\* session is Disconnected (reader and writer both cleared) and the exception on
\* its way out is the tick's own failure: when the close raised, when it did
\* not, and when there was no connection to close.
C21_DisconnectEndsDisconnected ==
    /\ [](tick.pc = "failed" /\ IsConnectionFault(ExcOf(tick.cause))
            => writer = "none" /\ reader = "none")
    /\ [][TickCloseDone => tick'.cause = tick.cause /\ tick'.pc = "failed"]_vars

\* A tick's disconnect() has returned after close() or wait_closed() raised.
C21_Witness ==
    /\ tick.pc = "failed"
    /\ tick.close = "close_error"
    /\ writer = "none"
    /\ reader = "none"

\* C22 (as claimed): a tick that disconnects after a transport failure always
\* finishes, whether or not the close ever completes.
C22_DisconnectingTickFinishes == (tick.pc = "closing") ~> (tick.pc = "idle")

\* C28: _hex_to_dec_sign of a hex token of value v in 0..65535 is v below 32768
\* and v - 65536 from 32768 on; ffff gives -1, 8000 gives -32768, 7fff gives
\* 32767; the result lies in -32768..32767.
C28_SignedDecode ==
    codec.op = "_hex_to_dec_sign" =>
        /\ codec.out = IF codec.in.value < 32768 THEN codec.in.value
                       ELSE codec.in.value - 65536
        /\ codec.out \in -32768..32767
        /\ codec.via = <<"f", "f", "f", "f">> => codec.out = -1
        /\ codec.via = <<"8", "0", "0", "0">> => codec.out = -32768
        /\ codec.via = <<"7", "f", "f", "f">> => codec.out = 32767

\* _hex_to_dec_sign has decoded 8000, the least value.
C28_Witness ==
    /\ codec.op = "_hex_to_dec_sign"
    /\ codec.via = <<"8", "0", "0", "0">>
    /\ codec.out = -32768

\* C29: _hex_to_dec(_dec_to_hex(x)) = x for every integer x in 0..65535.
C29_HexRoundTrip ==
    (codec.op = "_hex_to_dec" /\ codec.in.kind = "value") => codec.out = codec.in.value

\* The round trip of 65535 through "ffff".
C29_Witness ==
    /\ codec.op = "_hex_to_dec"
    /\ codec.in.kind = "value"
    /\ codec.in.value = MaxWord
    /\ codec.via = <<"f", "f", "f", "f">>
    /\ codec.out = MaxWord

\* C30: _dec_to_hex of an integer in 0..65535 is its hexadecimal text in lowercase
\* digits without leading zeros; of an integer below 0 or above 65535 it raises
\* ValueError.
C30_EncodeHexDomain ==
    codec.op = "_dec_to_hex" =>
        IF codec.in.value \in 0..MaxWord
        THEN /\ codec.out.exc = "none"
             /\ Len(codec.out.text) >= 1
             /\ \A i \in 1..Len(codec.out.text) :
                    \E d \in 1..16 : codec.out.text[i] = HexDigits[d]
             /\ Len(codec.out.text) > 1 => codec.out.text[1] # "0"
             /\ HexToDec(codec.out.text) = codec.in.value
        ELSE codec.out.exc = "ValueError"

\* _dec_to_hex has refused 65536, the first value above the domain.
C30_Witness ==
    /\ codec.op = "_dec_to_hex"
    /\ codec.in.value = MaxWord + 1
    /\ codec.out.exc = "ValueError"

\* Bits from..to of a word, bit 0 the least significant, by arithmetic.
Field(word, from_bit, to_bit) == (word \div Pow2(from_bit)) % Pow2(to_bit - from_bit + 1)

\* The value of token i of a response.
WordAt(parts, i) == HexToDec(Part(parts, i))

\* C23: for a state response with the state tag and at least seven tokens,
\* get_state returns the layout's decode of words 1..6: each field is the bit
\* range of its word, the temperature read as a signed byte; humidity,
\* speed_fact and filter_dust are absent exactly when their byte is 255; msg is
\* the 11th token when there is one.
C23_StateLayout ==
    (codec.op = "get_state" /\ Len(codec.in.parts) >= 7
        /\ Part(codec.in.parts, 0) = RESP_STATE) =>
    LET p == codec.in.parts
        w(i) == WordAt(p, i)
        byte(v) == IF v = 255 THEN None ELSE Some(v)
    IN  /\ codec.out.exc = "none"
        /\ codec.out.power = (Field(w(1), 0, 0) = 1)
        /\ codec.out.is_warn_err = (Field(w(1), 1, 1) = 1)
        /\ codec.out.is_fatal_err = (Field(w(1), 2, 2) = 1)
        /\ codec.out.danger_overheat = (Field(w(1), 3, 3) = 1)
        /\ codec.out.change_filter = (Field(w(1), 5, 5) = 1)
        /\ codec.out.mode_set = Field(w(1), 6, 8)
        /\ codec.out.unit_state = Field(w(2), 0, 1)
        /\ codec.out.mode = Field(w(2), 3, 5)
        /\ codec.out.temperature =
             (IF Field(w(3), 0, 7) >= 128 THEN Field(w(3), 0, 7) - 256
              ELSE Field(w(3), 0, 7))
        /\ codec.out.temperature_target = Field(w(3), 8, 15)
        /\ codec.out.humidity = byte(Field(w(4), 0, 7))
        /\ codec.out.speed = Field(w(5), 0, 3)
        /\ codec.out.speed_target = Field(w(5), 4, 7)
        /\ codec.out.speed_fact = byte(Field(w(5), 8, 15))
        /\ codec.out.color_msg = Field(w(6), 4, 5)
        /\ codec.out.color_ind = Field(w(6), 6, 7)
        /\ codec.out.filter_dust = byte(Field(w(6), 8, 15))
        /\ codec.out.msg = (IF Len(p) >= 11 THEN Some(p[11]) ELSE None)

\* get_state has decoded a response with a temperature below zero and a message.
C23_Witness ==
    /\ codec.op = "get_state"
    /\ codec.out.exc = "none"
    /\ codec.out.temperature = -1
    /\ codec.out.msg = Some(<<"m", "s", "g">>)

\* The sensor channels: the token each is read from, and whether it is a
\* temperature.
SensorChannels ==
    {[name |-> "temp_supply", index |-> 1, temp |-> TRUE],
     [name |-> "temp_room", index |-> 3, temp |-> TRUE],
     [name |-> "temp_outdoor", index |-> 5, temp |-> TRUE],
     [name |-> "temp_water", index |-> 7, temp |-> TRUE],
     [name |-> "power_consumption", index |-> 8, temp |-> FALSE]}

\* C24 (as claimed): get_sensors decodes every temperature channel whose token is
\* not the sentinel as the signed 16-bit value divided by 10, and at most one of
\* the five channels as plain unsigned hex.
C24_TemperaturesSignedTenths ==
    (codec.op = "get_sensors" /\ codec.out.exc = "none" /\ Len(codec.in.parts) > 8) =>
    LET p == codec.in.parts
        signed(v) == IF v >= 32768 THEN v - 65536 ELSE v
    IN  /\ \A c \in SensorChannels :
              (c.temp /\ Part(p, c.index) # SentinelToken) =>
                  codec.out[c.name] = Some([num |-> signed(WordAt(p, c.index)), den |-> 10])
        /\ Cardinality({c \in SensorChannels :
                           /\ codec.out[c.name] # None
                           /\ ValueOf(codec.out[c.name]).den = 1}) <= 1

\* C25: a sensor channel whose token is the sentinel fb07 is absent, whatever its
\* position and whatever the other tokens are; and a channel is absent only when
\* its own token is the sentinel or the response has no token for it.
C25_SentinelPerChannel ==
    (codec.op = "get_sensors" /\ codec.out.exc = "none") =>
    LET p == codec.in.parts
    IN  \A c \in SensorChannels :
            /\ (Len(p) > c.index /\ Part(p, c.index) = SentinelToken)
                  => codec.out[c.name] = None
            /\ codec.out[c.name] = None
                  => (Len(p) <= c.index \/ Part(p, c.index) = SentinelToken)

\* The room channel holds the sentinel, the water channel next to it does not.
C25_Witness ==
    /\ codec.op = "get_sensors"
    /\ codec.out.exc = "none"
    /\ Len(codec.in.parts) > 8
    /\ Part(codec.in.parts, 3) = SentinelToken
    /\ Part(codec.in.parts, 7) # SentinelToken
    /\ codec.out.temp_room = None
    /\ codec.out.temp_water # None

\* C26: for a properties response with the properties tag and eight tokens or
\* more, get_properties sets temp_min/temp_max to the low/high byte of word 1,
\* speed_min/speed_max to the low/high byte of word 2, has_cooler and
\* has_humidifier to bits 14 and 13 of word 4, protocol_ver to
\* "<high byte>.<low byte>" of word 5 and firmware_ver to the value of word 7.
C26_PropertiesLayout ==
    (codec.op = "get_properties" /\ Len(codec.in.parts) >= 8
        /\ Part(codec.in.parts, 0) = RESP_PROPERTIES) =>
    LET p == codec.in.parts
    IN  /\ codec.out.exc = "none"
        /\ codec.out.temp_min = WordAt(p, 1) % 256
        /\ codec.out.temp_max = (WordAt(p, 1) \div 256) % 256
        /\ codec.out.speed_min = WordAt(p, 2) % 256
        /\ codec.out.speed_max = (WordAt(p, 2) \div 256) % 256
        /\ codec.out.has_cooler = (Field(WordAt(p, 4), 14, 14) = 1)
        /\ codec.out.has_humidifier = (Field(WordAt(p, 4), 13, 13) = 1)
        /\ codec.out.protocol_ver =
             DecimalText((WordAt(p, 5) \div 256) % 256) \o <<".">>
                 \o DecimalText(WordAt(p, 5) % 256)
        /\ codec.out.firmware_ver = WordAt(p, 7)

\* get_properties has decoded a unit with a cooler, no humidifier, protocol 1.7.
C26_Witness ==
    /\ codec.op = "get_properties"
    /\ codec.out.exc = "none"
    /\ codec.out.has_cooler
    /\ ~codec.out.has_humidifier
    /\ codec.out.protocol_ver = <<"1", ".", "7">>
    /\ codec.out.temp_min = 16
    /\ codec.out.temp_max = 28

\* C27: _parse_bits of a 16-bit word and a range 0 <= from <= to <= 15 is
\* (word div 2^from) mod 2^(to-from+1); of the literal token "0" it is 0.
C27_ExtractBits ==
    codec.op = "_parse_bits" =>
        /\ codec.out.value = Field(codec.in.value, codec.out.from_bit, codec.out.to_bit)
        /\ codec.via = <<"0">> => codec.out.value = 0

\* Bits 4..11 of a5c3 are 5c.
C27_Witness ==
    /\ codec.op = "_parse_bits"
    /\ codec.via = <<"a", "5", "c", "3">>
    /\ codec.out.from_bit = 4
    /\ codec.out.to_bit = 11
    /\ codec.out.value = 92

\* The places of a line where a run of characters other than the delimiter
\* starts and where one ends, and the k-th smallest member of a set of places.
RunStarts(line) ==
    {i \in 1..Len(line) : line[i] # DELIMITER /\ (i = 1 \/ line[i - 1] = DELIMITER)}
RunEnds(line) ==
    {i \in 1..Len(line) : line[i] # DELIMITER /\ (i = Len(line) \/ line[i + 1] = DELIMITER)}
Nth(places, k) == CHOOSE x \in places : Cardinality({y \in places : y < x}) = k - 1

\* C31: _split_response returns the non-empty segments between delimiters in
\* their order (the maximal delimiter-free runs of the line) and never an empty
\* token; VSt07__1a_2b gives VSt07, 1a, 2b.
C31_TokensAreNonEmptySegments ==
    codec.op = "_split_response" =>
        LET line == codec.in.text
        IN  /\ Len(codec.out) = Cardinality(RunStarts(line))
            /\ \A k \in 1..Len(codec.out) :
                   /\ codec.out[k] # <<>>
                   /\ codec.out[k] = SubSeq(line, Nth(RunStarts(line), k), Nth(RunEnds(line), k))

\* The line VSt07__1a_2b has been split into its three tokens.
C31_Witness ==
    /\ codec.op = "_split_response"
    /\ codec.in.text = <<"V", "S", "t", "0", "7", "_", "_", "1", "a", "_", "2", "b">>
    /\ codec.out = << <<"V", "S", "t", "0", "7">>, <<"1", "a">>, <<"2", "b">> >>

\* A text of lowercase hex digits without leading zeros.
IsLowerHex(text) ==
    /\ Len(text) >= 1
    /\ \A i \in 1..Len(text) : \E d \in 1..16 : text[i] = HexDigits[d]
    /\ Len(text) > 1 => text[1] # "0"

\* C32: every request built has the form <type>_<password in lowercase hex> for
\* a read and <type>_<password>_<data word in lowercase hex> for a command: two
\* tokens, or three also when the data word is 0.
C32_RequestForm ==
    (codec.op = "_build_request" /\ codec.out.exc = "none") =>
        LET segments == Split(codec.out.text, DELIMITER)
            type == codec.in.text[1]
        IN  /\ \A k \in 1..Len(segments) : segments[k] # <<>>
            /\ segments[1] = <<type>>
            /\ IsLowerHex(segments[2]) /\ HexToDec(segments[2]) = codec.in.value
            /\ type \in ReadTypes => Len(segments) = 2
            /\ type \in CommandTypes =>
                 /\ Len(segments) = 3
                 /\ IsLowerHex(segments[3])
                 /\ HexToDec(segments[3]) = ValueOf(codec.via)

\* The request of set_power(False): VWPwr, the password abcd and the data word 0.
C32_Witness ==
    /\ codec.op = "_build_request"
    /\ codec.via = Some(POWER_OFF)
    /\ codec.out.text = <<"VWPwr", "_", "a", "b", "c", "d", "_", "0">>

\* A climate handler records its override for field f.
Issues(f) == cmd.pc = "idle" /\ cmd'.pc = "issued" /\ cmd'.entity = "climate" /\ cmd'.field = f

\* The instant from which a Snapshot clears the overrides the entity holds.
ExpiresAt == optimistic_set_time + _OPTIMISTIC_HOLD_SECONDS

\* C33 (as claimed): issuing a command for one field changes neither the override
\* of another field nor the time at which that override expires, and a Snapshot
\* clears no override issued within the last 6 s.
C33_OverlayPerField ==
    /\ [][\A f \in Fields : \A g \in Fields \ {f} :
            (Issues(f) /\ Override(g) # None) =>
                /\ Override(g)' = Override(g)
                /\ ExpiresAt' = ExpiresAt]_vars
    /\ [][\A g \in Fields :
            (SnapshotArrives /\ Override(g) # None /\ Override(g)' = None)
                => now - optimistic_set_time > _OPTIMISTIC_HOLD_SECONDS]_vars

\* The tick reads a response its decoder cannot use.
ReadsMalformed ==
    /\ TickRead
    /\ Head(rx) \in MalformedReplies(TypeOfPc(tick.pc))

\* C34 (as claimed): for each of the properties, state and sensors requests, a
\* response with another tag than the expected one, or with the right tag and
\* fewer tokens than the layout reads, makes the tick fail as a protocol failure:
\* no Snapshot is published, nothing of the response is reported, and the session
\* is not closed.
C34_MalformedResponseFailsTick ==
    [][ReadsMalformed =>
          /\ tick'.pc = "failed"
          /\ data' = data
          /\ client_props' = client_props
          /\ writer' = writer /\ reader' = reader]_vars

\* How far a tick has come: the place of each position of a tick in the order of
\* its steps.
Position(pc) ==
    CASE pc = "start" -> 0
      [] pc = "connecting" -> 1
      [] pc = "send_props" -> 2
      [] pc \in {"wait_props", "recv_props"} -> 3
      [] pc = "send_state" -> 4
      [] pc \in {"wait_state", "recv_state"} -> 5
      [] pc = "send_sensors" -> 6
      [] pc \in {"wait_sensors", "recv_sensors"} -> 7
      [] pc = "closing" -> 8
      [] pc = "failed" -> 9
      [] pc = "idle" -> 10

\* The request of this type is written to the connection.
PollSends(type) == pending' = Append(pending, BuildRequest(type, None))

\* C35: within one tick the steps run in the order connect (only if
\* Disconnected), properties (only if NeedsProperties), state, sensors; each
\* request is sent at most once per tick; the first failing step ends the tick, no
\* later request of that tick being sent; a failed request is sent again only by
\* a later tick.
C35_TickOrder ==
    [][/\ tick'.pc # tick.pc =>
            /\ tick.pc # "idle" => Position(tick'.pc) > Position(tick.pc)
            /\ tick.pc = "idle" => tick'.pc = "start"
            /\ tick'.pc = "connecting" => tick.pc = "start" /\ writer = "none"
            /\ tick'.pc = "send_props" =>
                  /\ ~properties_loaded
                  /\ \/ tick.pc = "start" /\ writer # "none"
                     \/ tick.pc = "connecting"
            /\ tick'.pc = "send_state" =>
                  \/ tick.pc \in {"wait_props", "recv_props"}
                  \/ /\ properties_loaded
                     /\ \/ tick.pc = "start" /\ writer # "none"
                        \/ tick.pc = "connecting"
            /\ tick'.pc = "send_sensors" => tick.pc \in {"wait_state", "recv_state"}
            /\ tick'.pc = "idle" =>
                  tick.pc \in {"wait_sensors", "recv_sensors", "failed"}
       /\ \A type \in ReadTypes :
            PollSends(type) =>
                /\ tick.pc \in {"send_props", "send_state", "send_sensors"}
                /\ TypeOfPc(tick.pc) = type
                /\ tick'.pc # tick.pc]_vars

\* A tick, Ready on this connection, has failed at its state request or at its
\* sensors request: it is about to end.
C35_Witness ==
    /\ tick.pc = "failed"
    /\ tick.cause = "bad_tag"
    /\ props_on_conn
    /\ writer = "open"

\* C36 (as claimed): in every state between operations (poll ticks, entity
\* commands, the unloading of the entry) a Ready coordinator has a client whose
\* writer is set: no state is Ready and Disconnected.
C36_ReadyImpliesConnected == properties_loaded => writer # "none"

\* C37 (as claimed): a get_properties call that fails, by a device error tag, a
\* wrong leading tag or a response with too few tokens, leaves the eight cached
\* properties as they were before the call.
C37_FailedFetchKeepsProperties ==
    (codec.op = "get_properties" /\ codec.out.exc # "none")
        => codec.via.after = codec.via.before
====
